---------------------------- MODULE Spec2Model ----------------------------
(***************************************************************************)
(* goversion: the version-state resolution and switching engine of         *)
(* src/commands.go (use, list, remove, localVersions, downloaded).         *)
(*                                                                         *)
(* Strings are sequences of one-character strings, so that TrimPrefix,     *)
(* filepath.Base and the version regular expression are computed on the    *)
(* characters, as the code computes them.                                  *)
(***************************************************************************)
EXTENDS Integers, Sequences, FiniteSets, TLC

(***************************************************************************)
(* String literals used by the model.                                      *)
(***************************************************************************)
GoPrefix == <<"g", "o">>
MainAlias == <<"m", "a", "i", "n">>
Marker == <<"/", ".", "u", "n", "p", "a", "c", "k", "e", "d", "-", "s", "u", "c", "c", "e", "s", "s">>

V120 == <<"1", ".", "2", "0">>
V121 == <<"1", ".", "2", "1">>
V122rc1 == <<"1", ".", "2", "2", "r", "c", "1">>
V1220 == <<"1", ".", "2", "2", ".", "0">>
V20 == <<"2", ".", "0">>
V119 == <<"1", ".", "1", "9">>

Gopls == <<"g", "o", "p", "l", "s">>
Dlv == <<"d", "l", "v">>

Digits == {"0", "1", "2", "3", "4", "5", "6", "7", "8", "9"}
NonZeroDigits == Digits \ {"0"}

(***************************************************************************)
(* strings.TrimPrefix(s, prefix) and filepath.Base(path).                  *)
(***************************************************************************)
HasPrefix(s, prefix) ==
    /\ Len(s) >= Len(prefix)
    /\ SubSeq(s, 1, Len(prefix)) = prefix

TrimPrefix(s, prefix) ==
    IF HasPrefix(s, prefix) THEN SubSeq(s, Len(prefix) + 1, Len(s)) ELSE s

RECURSIVE LastSlash(_, _)
LastSlash(s, i) ==
    IF i = 0 THEN 0
    ELSE IF s[i] = "/" THEN i
    ELSE LastSlash(s, i - 1)

RECURSIVE StripTrailingSlashes(_)
StripTrailingSlashes(s) ==
    IF Len(s) > 1 /\ s[Len(s)] = "/" THEN StripTrailingSlashes(SubSeq(s, 1, Len(s) - 1))
    ELSE s

Base(path) ==
    IF path = <<>> THEN <<".">>
    ELSE LET p == StripTrailingSlashes(path)
         IN  IF p = <<"/">> THEN p
             ELSE SubSeq(p, LastSlash(p, Len(p)) + 1, Len(p))

GoName(version) == GoPrefix \o version

\* versionRE: ^1(\.[1-9][0-9]*)?(\.[1-9][0-9]*)?((rc|beta)[1-9]+)?$
\* Each group is matched greedily from position i; the result is the
\* position after the group, or i itself when the optional group does not
\* match there.  What follows a numeric group is never a digit and what
\* follows the pre-release group is the end, so greedy matching decides
\* the language exactly.
RECURSIVE SkipWhile(_, _, _)
SkipWhile(s, i, set) ==
    IF i <= Len(s) /\ s[i] \in set THEN SkipWhile(s, i + 1, set) ELSE i

MatchNumGroup(s, i) ==
    IF /\ i + 1 <= Len(s)
       /\ s[i] = "."
       /\ s[i + 1] \in NonZeroDigits
    THEN SkipWhile(s, i + 2, Digits)
    ELSE i

MatchPreGroup(s, i) ==
    LET afterTag ==
            IF HasPrefix(SubSeq(s, i, Len(s)), <<"r", "c">>) THEN i + 2
            ELSE IF HasPrefix(SubSeq(s, i, Len(s)), <<"b", "e", "t", "a">>) THEN i + 4
            ELSE 0
    IN  IF afterTag # 0 /\ afterTag <= Len(s) /\ s[afterTag] \in NonZeroDigits
        THEN SkipWhile(s, afterTag, NonZeroDigits)
        ELSE i

versionRE(s) ==
    /\ Len(s) >= 1
    /\ s[1] = "1"
    /\ MatchPreGroup(s, MatchNumGroup(s, MatchNumGroup(s, 2))) = Len(s) + 1


(***************************************************************************)
(* versionLess: the order localVersions sorts the list by.  Versions are   *)
(* compared numerically component by component (major.minor.patch, a       *)
(* missing component counting as 0); at equal numbers a pre-release sorts  *)
(* before the final release, "beta" before "rc", then by pre-release       *)
(* number.                                                                 *)
(***************************************************************************)
DigitVal(c) ==
    CASE c = "0" -> 0 [] c = "1" -> 1 [] c = "2" -> 2 [] c = "3" -> 3 [] c = "4" -> 4
      [] c = "5" -> 5 [] c = "6" -> 6 [] c = "7" -> 7 [] c = "8" -> 8 [] c = "9" -> 9
      [] OTHER -> 0

RECURSIVE ParseNat(_)
ParseNat(s) ==
    IF s = <<>> THEN 0
    ELSE 10 * ParseNat(SubSeq(s, 1, Len(s) - 1)) + DigitVal(s[Len(s)])

\* The number starting at position i, and the position after it.
NumAt(s, i) ==
    LET j == SkipWhile(s, i, Digits)
    IN  [val |-> ParseNat(SubSeq(s, i, j - 1)), next |-> j]

\* The component after a "." at position i (0 and i itself when there is none).
ComponentAt(s, i) ==
    IF i <= Len(s) /\ s[i] = "." THEN NumAt(s, i + 1) ELSE [val |-> 0, next |-> i]

ParseVersion(s) ==
    LET major == NumAt(s, 1)
        minor == ComponentAt(s, major.next)
        patch == ComponentAt(s, minor.next)
        rest == SubSeq(s, patch.next, Len(s))
        tagEnd == SkipWhile(rest, 1, {"a", "b", "c", "e", "r", "t"})
    IN  [major |-> major.val,
         minor |-> minor.val,
         patch |-> patch.val,
         \* 0: beta, 1: rc, 2: final release
         stage |-> IF HasPrefix(rest, <<"b", "e", "t", "a">>) THEN 0
                   ELSE IF HasPrefix(rest, <<"r", "c">>) THEN 1
                   ELSE 2,
         pre |-> NumAt(rest, tagEnd).val]

versionLess(a, b) ==
    LET x == ParseVersion(a)
        y == ParseVersion(b)
    IN  IF x.major # y.major THEN x.major < y.major
        ELSE IF x.minor # y.minor THEN x.minor < y.minor
        ELSE IF x.patch # y.patch THEN x.patch < y.patch
        ELSE IF x.stage # y.stage THEN x.stage < y.stage
        ELSE x.pre < y.pre

(***************************************************************************)
(* sort.Slice(list, versionLess): an insertion sort.  Elements that        *)
(* compare equal are equal strings for every list the model builds, so the *)
(* result does not depend on the sorting algorithm.                        *)
(***************************************************************************)
RECURSIVE Insert(_, _)
Insert(sorted, v) ==
    IF sorted = <<>> THEN <<v>>
    ELSE IF versionLess(v, Head(sorted)) THEN <<v>> \o sorted
    ELSE <<Head(sorted)>> \o Insert(Tail(sorted), v)

RECURSIVE SortVersions(_)
SortVersions(list) ==
    IF list = <<>> THEN <<>>
    ELSE Insert(SortVersions(SubSeq(list, 1, Len(list) - 1)), list[Len(list)])


(***************************************************************************)
(* The output of `go version` run with $GOBIN cut from $PATH, so that the  *)
(* main toolchain answers.                                                 *)
(***************************************************************************)
GoVersionHead == <<"g", "o", " ", "v", "e", "r", "s", "i", "o", "n", " ">>
OsArchTail == <<" ", "l", "i", "n", "u", "x", "/", "a", "m", "d", "6", "4", "\n">>

GoVersionLine(version) == GoVersionHead \o GoName(version) \o OsArchTail

\* A toolchain built from a development tree prints one more token.
DevelLine == GoVersionHead \o <<"d", "e", "v", "e", "l", " ">> \o GoName(V121) \o OsArchTail

ToolchainOutputs == {GoVersionLine(V121), GoVersionLine(V1220), DevelLine}

\* strings.Split(s, " ")
RECURSIVE Split(_, _)
Split(s, sep) ==
    LET hits == {i \in 1..Len(s) : s[i] = sep}
    IN  IF hits = {} THEN <<s>>
        ELSE LET i == CHOOSE k \in hits : \A j \in hits : k <= j
             IN  <<SubSeq(s, 1, i - 1)>> \o Split(SubSeq(s, i + 1, Len(s)), sep)

(***************************************************************************)
(* fsx: a directory as a set of entries with unique names.  An entry is a  *)
(* regular file, a subdirectory or a symlink with its target.              *)
(***************************************************************************)
FileEntry(name) == [name |-> name, kind |-> "file", target |-> <<>>]
DirEntry(name) == [name |-> name, kind |-> "dir", target |-> <<>>]
LinkEntry(name, target) == [name |-> name, kind |-> "symlink", target |-> target]

Named(dir, name) == {e \in dir : e.name = name}
Exists(dir, name) == Named(dir, name) # {}

\* fsx.Remove(name): fs.ErrNotExist when there is no such entry.
FsRemove(dir, name) ==
    IF Exists(dir, name)
    THEN [err |-> "nil", dir |-> dir \ Named(dir, name)]
    ELSE [err |-> "not_exist", dir |-> dir]

\* fsx.Symlink(oldname, newname): fails when newname exists.
FsSymlink(dir, oldname, newname) ==
    IF Exists(dir, newname)
    THEN [err |-> "exist", dir |-> dir]
    ELSE [err |-> "nil", dir |-> dir \cup {LinkEntry(newname, oldname)}]

\* fsx.Readlink(name)
FsReadlink(dir, name) ==
    IF ~Exists(dir, name) THEN [err |-> "not_exist", target |-> <<>>]
    ELSE LET e == CHOOSE x \in Named(dir, name) : TRUE
         IN  IF e.kind = "symlink" THEN [err |-> "nil", target |-> e.target]
             ELSE [err |-> "invalid", target |-> <<>>]

\* The characters of file names, in the order of their bytes.
Alphabet ==
    <<"-", ".", "/", "0", "1", "2", "3", "4", "5", "6", "7", "8", "9", "_",
      "a", "b", "c", "d", "e", "f", "g", "h", "i", "j", "k", "l", "m",
      "n", "o", "p", "q", "r", "s", "t", "u", "v", "w", "x", "y", "z">>

CharCode(c) == CHOOSE i \in 1..Len(Alphabet) : Alphabet[i] = c

\* a < b as Go compares strings: byte by byte, a proper prefix first.
RECURSIVE NameLess(_, _)
NameLess(a, b) ==
    IF b = <<>> THEN FALSE
    ELSE IF a = <<>> THEN TRUE
    ELSE IF Head(a) = Head(b) THEN NameLess(Tail(a), Tail(b))
    ELSE CharCode(Head(a)) < CharCode(Head(b))

\* fs.ReadDir(gobin, "."): the entries of the directory sorted by filename.
RECURSIVE ReadDir(_)
ReadDir(dir) ==
    IF dir = {} THEN <<>>
    ELSE LET e == CHOOSE x \in dir : \A y \in dir : ~NameLess(y.name, x.name)
         IN  <<e>> \o ReadDir(dir \ {e})

\* The sdk directory is the set of the paths that exist under it.
\* fsx.RemoveAll(name): removes name and everything below it; no error when absent.
FsRemoveAll(paths, name) ==
    {q \in paths : q # name /\ ~HasPrefix(q, name \o <<"/">>)}

(***************************************************************************)
(* downloaded(version, sdk)                                                *)
(***************************************************************************)
downloaded(version, paths) == (GoName(version) \o Marker) \in paths

(***************************************************************************)
(* local, local.contains and localVersions.  `fault` is the failure the    *)
(* environment injects into this call: "exec" (the toolchain cannot be     *)
(* run), "readlink" or "readdir" (an I/O error), or "none".                *)
(***************************************************************************)
NoLocal == [main |-> <<>>, current |-> <<>>, list |-> <<>>]

contains(l, version) == \E i \in 1..Len(l.list) : l.list[i] = version

RECURSIVE AppendVersions(_, _)
AppendVersions(list, entries) ==
    IF entries = <<>> THEN list
    ELSE LET entry == Head(entries)
             version == TrimPrefix(entry.name, GoPrefix)
         IN  IF entry.kind = "dir" THEN AppendVersions(list, Tail(entries))
             ELSE IF versionRE(version) THEN AppendVersions(Append(list, version), Tail(entries))
             ELSE AppendVersions(list, Tail(entries))

(***************************************************************************)
(* $PATH, $GOBIN and which `go` answers.  The bin directory is GobinDir,   *)
(* the main toolchain lives in SysDir.                                     *)
(***************************************************************************)
GobinDir == <<"/", "g">>
SysDir == <<"/", "u">>
PathListSeparator == ":"

\* The values of $PATH the shell starts the tool with.
ShellPaths == {GobinDir \o <<":">> \o SysDir, SysDir \o <<":">> \o GobinDir}

\* strings.Join(list, sep)
RECURSIVE Join(_, _)
Join(list, sep) ==
    IF list = <<>> THEN <<>>
    ELSE IF Len(list) = 1 THEN list[1]
    ELSE list[1] \o <<sep>> \o Join(Tail(list), sep)

RECURSIVE Without(_, _)
Without(list, value) ==
    IF list = <<>> THEN <<>>
    ELSE IF Head(list) # value THEN <<Head(list)>> \o Without(Tail(list), value)
    ELSE Without(Tail(list), value)

\* cutFromPath(path, value)
cutFromPath(path, value) ==
    Join(Without(Split(path, PathListSeparator), value), PathListSeparator)

\* exec "go version" under the given $PATH: the first directory of the path
\* that holds a `go` answers.  In the bin directory that is the symlink's
\* target, a go<version> binary, which reports its own version.
RECURSIVE LookPath(_, _, _)
LookPath(dirs, dir, mainOutput) ==
    IF dirs = <<>> THEN [err |-> "exec", out |-> <<>>]
    ELSE IF Head(dirs) = SysDir THEN [err |-> "nil", out |-> mainOutput]
    ELSE IF /\ Head(dirs) = GobinDir
            /\ FsReadlink(dir, GoPrefix).err = "nil"
            /\ Exists(dir, FsReadlink(dir, GoPrefix).target)
         THEN [err |-> "nil",
               out |-> GoVersionLine(TrimPrefix(FsReadlink(dir, GoPrefix).target, GoPrefix))]
    ELSE LookPath(Tail(dirs), dir, mainOutput)

goVersion(path, dir, mainOutput) == LookPath(Split(path, PathListSeparator), dir, mainOutput)

\* A slip: $PATH is set back by hand before the last return only.
pathOnReturnNoDefer(currPath, tempPath, err) ==
    IF err = "nil" THEN currPath ELSE tempPath

\* localVersions, lines 220-226: $PATH when localVersions returns.  The
\* deferred Setenv runs on every return.
pathOnReturn(currPath, tempPath, err) == currPath

\* A slip: the symlink's target is taken as the version, prefix and all.
currentOfNoTrim(link, main) ==
    IF link.err = "not_exist" THEN main ELSE Base(link.target)

\* localVersions, lines 241-249: current from what Readlink("go") returned.
currentOf(link, main) ==
    IF link.err = "not_exist" THEN main ELSE TrimPrefix(Base(link.target), GoPrefix)

localVersionsResult(currPath, tempPath, err, l) ==
    [err |-> err, local |-> l, path |-> pathOnReturn(currPath, tempPath, err)]

\* localVersions, lines 220-239: `go version` run under $PATH without
\* $GOBIN, and the main version cut out of what it printed.
mainVersion(currPath, mainOutput, dir, fail) ==
    LET tempPath == cutFromPath(currPath, GobinDir)
        exec == goVersion(tempPath, dir, mainOutput)
        parts == Split(exec.out, " ")
    IN  IF fail \/ exec.err # "nil"
        THEN [err |-> "exec", main |-> <<>>, path |-> tempPath]
        ELSE IF Len(parts) # 4
        THEN [err |-> "format", main |-> <<>>, path |-> tempPath]
        ELSE [err |-> "nil", main |-> TrimPrefix(parts[3], GoPrefix), path |-> tempPath]

\* localVersions, lines 241-249: gobin.Readlink("go") and the current version.
currentVersion(dir, main, fail) ==
    LET link == FsReadlink(dir, GoPrefix)
    IN  IF fail \/ link.err \notin {"nil", "not_exist"}
        THEN [err |-> "readlink", current |-> <<>>]
        ELSE [err |-> "nil", current |-> currentOf(link, main)]

\* localVersions, lines 251-269: fs.ReadDir(gobin, ".") and the sorted list.
versionList(dir, main, fail) ==
    IF fail THEN [err |-> "readdir", list |-> <<>>]
    ELSE [err |-> "nil", list |-> SortVersions(AppendVersions(<<main>>, ReadDir(dir)))]

\* localVersions run with nothing else touching the directory in between.
localVersions(currPath, mainOutput, dir, fault) ==
    LET m == mainVersion(currPath, mainOutput, dir, fault = "exec")
        c == currentVersion(dir, m.main, fault = "readlink")
        l == versionList(dir, m.main, fault = "readdir")
    IN  IF m.err # "nil" THEN localVersionsResult(currPath, m.path, m.err, NoLocal)
        ELSE IF c.err # "nil" THEN localVersionsResult(currPath, m.path, c.err, NoLocal)
        ELSE IF l.err # "nil" THEN localVersionsResult(currPath, m.path, l.err, NoLocal)
        ELSE localVersionsResult(currPath, m.path, "nil",
                [main |-> m.main, current |-> c.current, list |-> l.list])


(***************************************************************************)
(* State.                                                                  *)
(*   goOutput  what the main toolchain prints for `go version`             *)
(*   gobin     the entries of the bin directory ($GOBIN)                   *)
(*   sdk       the paths that exist under the sdk directory                *)
(* and, for every invocation p of the tool (one process each):             *)
(*   pc        where the invocation stands ("idle" before, "done" after)   *)
(*   op, arg   the command and its args[0]                                 *)
(*   version   `version` once the alias is resolved                        *)
(*   local     the snapshot localVersions builds and returns to it         *)
(*   initial   `initial` of use                                            *)
(*   result    what the command returned or printed last                   *)
(*   log       the external and filesystem steps it has run, in order      *)
(*   pre       gobin and sdk as they were when it started                  *)
(*   output    the lines list printed                                      *)
(*   printAll  the -all flag of list                                       *)
(*   versions  the entries list has still to print                         *)
(*   path      $PATH of the process                                        *)
(* An invocation stands at "readlink" and "readdir" inside localVersions,  *)
(* after `go version` has run, and at the name of its next step after.     *)
(* and, to exercise versionRE alone:                                       *)
(*   candidate a string; matched: whether versionRE was applied to it and  *)
(*             what it answered                                            *)
(***************************************************************************)
VARIABLES goOutput, gobin, sdk, path, pc, op, arg, version, local, initial, result, log,
          pre, output, printAll, versions, candidate, matched

vars == <<goOutput, gobin, sdk, path, pc, op, arg, version, local, initial, result, log,
          pre, output, printAll, versions, candidate, matched>>

Procs == {1, 2}

\* The releases `go install golang.org/dl/go<version>@latest` can find.
Releases == {V120, V121, V122rc1}

\* What a user types as args[0] of use and remove.
Args == Releases \cup {MainAlias, V1220, V20}

\* Other programs in $GOBIN and a subdirectory of it.
OtherEntries == {FileEntry(Gopls), FileEntry(Dlv), DirEntry(GoName(V119))}

NoPre == [gobin |-> {}, sdk |-> {}, path |-> <<>>]

SdkPaths(v) == {GoName(v), GoName(v) \o Marker}

\* The bin directory holds go<version> binaries and other programs, and no
\* `go` symlink yet; an SDK is absent, partly unpacked or unpacked.
Init ==
    /\ goOutput \in ToolchainOutputs
    /\ \E installed \in SUBSET Releases :
         gobin = OtherEntries \cup {FileEntry(GoName(v)) : v \in installed}
    /\ \E started \in SUBSET Releases : \E unpacked \in SUBSET started :
         sdk = {GoName(v) : v \in started} \cup {GoName(v) \o Marker : v \in unpacked}
    /\ pc = [p \in Procs |-> "idle"]
    /\ op = [p \in Procs |-> "none"]
    /\ arg = [p \in Procs |-> <<>>]
    /\ version = [p \in Procs |-> <<>>]
    /\ local = [p \in Procs |-> NoLocal]
    /\ initial = [p \in Procs |-> FALSE]
    /\ result = [p \in Procs |-> "none"]
    /\ log = [p \in Procs |-> <<>>]
    /\ pre = [p \in Procs |-> NoPre]
    /\ output = [p \in Procs |-> <<>>]
    /\ printAll = [p \in Procs |-> FALSE]
    /\ versions = [p \in Procs |-> <<>>]
    /\ \E shell \in ShellPaths : path = [p \in Procs |-> shell]
    /\ candidate = <<>>
    /\ matched = "unchecked"

Step(name, ok) == [step |-> name, ok |-> ok]

\* A command returns: the invocation is over with this result.
Return(p, res) ==
    /\ pc' = [pc EXCEPT ![p] = "done"]
    /\ result' = [result EXCEPT ![p] = res]

\* A command goes on to its next step.
Goto(p, label) ==
    /\ pc' = [pc EXCEPT ![p] = label]
    /\ UNCHANGED result

(***************************************************************************)
(* use, lines 36-66: with the snapshot, resolve the alias, validate, and   *)
(* choose the branch.  The result is "done" with what use returned, or     *)
(* the step use runs next.                                                 *)
(***************************************************************************)
ResolveAlias(l, a) == IF a = MainAlias THEN l.main ELSE a

\* A slip: the version is validated only after the main branch is chosen.
useBranchLateValidation(l, v) ==
    IF v = l.current /\ versionRE(v) THEN [pc |-> "done", result |-> "already"]
    ELSE IF v = l.main THEN [pc |-> "use_main", result |-> "none"]
    ELSE IF ~versionRE(v) THEN [pc |-> "done", result |-> "malformed"]
    ELSE IF ~contains(l, v) THEN [pc |-> "use_install", result |-> "none"]
    ELSE [pc |-> "use_sdk", result |-> "none"]

\* A slip: the cases of the switch are swapped, main before current.
useBranchMainFirst(l, v) ==
    IF ~versionRE(v) THEN [pc |-> "done", result |-> "malformed"]
    ELSE IF v = l.main THEN [pc |-> "use_main", result |-> "none"]
    ELSE IF v = l.current THEN [pc |-> "done", result |-> "already"]
    ELSE IF ~contains(l, v) THEN [pc |-> "use_install", result |-> "none"]
    ELSE [pc |-> "use_sdk", result |-> "none"]

useBranch(l, v) ==
    IF ~versionRE(v) THEN [pc |-> "done", result |-> "malformed"]
    ELSE IF v = l.current THEN [pc |-> "done", result |-> "already"]
    ELSE IF v = l.main THEN [pc |-> "use_main", result |-> "none"]
    ELSE IF ~contains(l, v) THEN [pc |-> "use_install", result |-> "none"]
    ELSE [pc |-> "use_sdk", result |-> "none"]

(***************************************************************************)
(* remove, lines 159-181: resolve the alias, validate, and choose the      *)
(* branch.                                                                 *)
(***************************************************************************)
\* A slip: the main version is not refused.
removeBranchNoMainCheck(l, v) ==
    IF ~versionRE(v) THEN [pc |-> "done", result |-> "malformed"]
    ELSE IF ~contains(l, v) THEN [pc |-> "done", result |-> "not_installed"]
    ELSE IF v = l.current /\ v # l.main THEN [pc |-> "rm_unlink", result |-> "none"]
    ELSE [pc |-> "rm_bin", result |-> "none"]

\* A slip: the current version is deleted without switching to main first.
removeBranchNoSwitch(l, v) ==
    IF ~versionRE(v) THEN [pc |-> "done", result |-> "malformed"]
    ELSE IF ~contains(l, v) THEN [pc |-> "done", result |-> "not_installed"]
    ELSE IF v = l.main THEN [pc |-> "done", result |-> "is_main"]
    ELSE [pc |-> "rm_bin", result |-> "none"]

removeBranch(l, v) ==
    IF ~versionRE(v) THEN [pc |-> "done", result |-> "malformed"]
    ELSE IF ~contains(l, v) THEN [pc |-> "done", result |-> "not_installed"]
    ELSE IF v = l.main THEN [pc |-> "done", result |-> "is_main"]
    ELSE IF v = l.current THEN [pc |-> "rm_unlink", result |-> "none"]
    ELSE [pc |-> "rm_bin", result |-> "none"]

\* An invocation begins: a new process with its arguments.
Begin(p, command, a) ==
    /\ pc[p] = "idle"
    /\ op' = [op EXCEPT ![p] = command]
    /\ arg' = [arg EXCEPT ![p] = a]
    /\ pre' = [pre EXCEPT ![p] = [gobin |-> gobin, sdk |-> sdk, path |-> path[p]]]
    /\ log' = [log EXCEPT ![p] = <<>>]
    /\ version' = [version EXCEPT ![p] = <<>>]
    /\ initial' = [initial EXCEPT ![p] = FALSE]
    /\ output' = [output EXCEPT ![p] = <<>>]
    /\ versions' = [versions EXCEPT ![p] = <<>>]

\* The command calls localVersions, lines 220-239: $PATH is cut,
\* `go version` runs and gives main.  On an error localVersions returns
\* and so does the command.
Start(p, command, a, all, fail) ==
    LET got == mainVersion(path[p], goOutput, gobin, fail)
    IN  /\ Begin(p, command, a)
        /\ printAll' = [printAll EXCEPT ![p] = all]
        /\ IF got.err # "nil"
           THEN /\ Return(p, "resolve_error")
                /\ local' = [local EXCEPT ![p] = NoLocal]
                /\ path' = [path EXCEPT ![p] = pathOnReturn(path[p], got.path, got.err)]
           ELSE /\ Goto(p, "readlink")
                /\ local' = [local EXCEPT ![p] = [NoLocal EXCEPT !.main = got.main]]
                /\ path' = [path EXCEPT ![p] = got.path]
        /\ UNCHANGED <<goOutput, gobin, sdk, candidate, matched>>

\* localVersions, lines 241-249: the go symlink is read and gives current.
Readlink(p, fail) ==
    LET got == currentVersion(gobin, local[p].main, fail)
    IN  /\ pc[p] = "readlink"
        /\ IF got.err # "nil"
           THEN /\ Return(p, "resolve_error")
                /\ local' = [local EXCEPT ![p] = NoLocal]
                /\ path' = [path EXCEPT ![p] = pathOnReturn(pre[p].path, path[p], got.err)]
           ELSE /\ Goto(p, "readdir")
                /\ local' = [local EXCEPT ![p].current = got.current]
                /\ UNCHANGED path
        /\ UNCHANGED <<goOutput, gobin, sdk, op, arg, version, initial, log, pre, output,
                       printAll, versions, candidate, matched>>

\* list, lines 114-120: the entries to print are the local list, or with
\* -all what go.dev answers.
listBranch(l, all) ==
    [pc |-> IF all THEN "list_remote" ELSE "list_print", result |-> "none"]

\* localVersions, lines 251-275: the bin directory is read and gives the
\* list; localVersions returns the snapshot and $PATH is set back.  The
\* command goes on with the snapshot up to its next step: use, lines 36-58,
\* remove, lines 159-176, list, lines 114-115.
ReadDirectory(p, fail) ==
    LET got == versionList(gobin, local[p].main, fail)
        l == [local[p] EXCEPT !.list = got.list]
        v == ResolveAlias(l, arg[p])
        branch == IF op[p] = "use" THEN useBranch(l, v)
                  ELSE IF op[p] = "remove" THEN removeBranch(l, v)
                  ELSE listBranch(l, printAll[p])
    IN  /\ pc[p] = "readdir"
        /\ path' = [path EXCEPT ![p] = pathOnReturn(pre[p].path, path[p], got.err)]
        /\ IF got.err # "nil"
           THEN /\ Return(p, "resolve_error")
                /\ local' = [local EXCEPT ![p] = NoLocal]
                /\ UNCHANGED <<version, initial, versions>>
           ELSE /\ pc' = [pc EXCEPT ![p] = branch.pc]
                /\ result' = [result EXCEPT ![p] = branch.result]
                /\ local' = [local EXCEPT ![p] = l]
                /\ version' = [version EXCEPT ![p] = IF op[p] = "list" THEN <<>> ELSE v]
                /\ initial' = [initial EXCEPT ![p] =
                                  op[p] = "use" /\ branch.pc = "use_install"]
                /\ versions' = [versions EXCEPT ![p] =
                                   IF op[p] = "list" /\ ~printAll[p] THEN l.list ELSE <<>>]
        /\ UNCHANGED <<goOutput, gobin, sdk, op, arg, log, pre, output, printAll,
                       candidate, matched>>

\* use, line 31.
UseStart(p, a, fail) == Start(p, "use", a, FALSE, fail)

\* use, lines 49-55: switching to main removes the symlink; any error returns.
UseRemoveMain(p, fail) ==
    LET r == FsRemove(gobin, GoPrefix)
    IN  /\ pc[p] = "use_main"
        /\ log' = [log EXCEPT ![p] = Append(@, Step("unlink", ~fail /\ r.err = "nil"))]
        /\ IF fail THEN /\ Return(p, "io_error")
                        /\ UNCHANGED gobin
           ELSE IF r.err # "nil" THEN /\ Return(p, "not_exist_error")
                                      /\ UNCHANGED gobin
           ELSE /\ Return(p, "switched_main")
                /\ gobin' = r.dir
        /\ UNCHANGED <<goOutput, sdk, op, arg, version, local, initial, pre, output, printAll, versions, path, candidate, matched>>

\* A slip: the error of the install step is dropped and use goes on.
UseInstallIgnoresError(p, ok) ==
    /\ pc[p] = "use_install"
    /\ ok => version[p] \in Releases
    /\ log' = [log EXCEPT ![p] = Append(@, Step("install", ok))]
    /\ gobin' = IF ok THEN (gobin \ Named(gobin, GoName(version[p])))
                              \cup {FileEntry(GoName(version[p]))}
                ELSE gobin
    /\ Goto(p, "use_sdk")
    /\ UNCHANGED <<goOutput, sdk, op, arg, version, local, initial, pre, output, printAll, versions, path, candidate, matched>>

\* use, lines 59-66: `go install golang.org/dl/go<version>@latest`.  On
\* success the binary go<version> is in the bin directory.
UseInstall(p, ok) ==
    /\ pc[p] = "use_install"
    /\ ok => version[p] \in Releases
    /\ log' = [log EXCEPT ![p] = Append(@, Step("install", ok))]
    /\ IF ok THEN /\ gobin' = (gobin \ Named(gobin, GoName(version[p])))
                                 \cup {FileEntry(GoName(version[p]))}
                  /\ Goto(p, "use_sdk")
       ELSE /\ UNCHANGED gobin
            /\ Return(p, "install_error")
    /\ UNCHANGED <<goOutput, sdk, op, arg, version, local, initial, pre, output, printAll, versions, path, candidate, matched>>

\* A slip: the SDK is looked for only after an initial installation.
UseCheckSDKOnlyInitial(p) ==
    /\ pc[p] = "use_sdk"
    /\ IF initial[p] /\ ~downloaded(version[p], sdk)
       THEN Goto(p, "use_download") ELSE Goto(p, "use_unlink")
    /\ UNCHANGED <<goOutput, gobin, sdk, op, arg, version, local, initial, log, pre, output, printAll, versions, path, candidate, matched>>

\* use, line 70: is the SDK there?
UseCheckSDK(p) ==
    /\ pc[p] = "use_sdk"
    /\ IF downloaded(version[p], sdk) THEN Goto(p, "use_unlink") ELSE Goto(p, "use_download")
    /\ UNCHANGED <<goOutput, gobin, sdk, op, arg, version, local, initial, log, pre, output, printAll, versions, path, candidate, matched>>

\* A slip: the error of the download step is dropped and use goes on.
UseDownloadIgnoresError(p, ok, partial) ==
    /\ pc[p] = "use_download"
    /\ ok => Exists(gobin, GoName(version[p]))
    /\ log' = [log EXCEPT ![p] = Append(@, Step("download", ok))]
    /\ sdk' = IF ok THEN sdk \cup SdkPaths(version[p])
              ELSE IF partial THEN sdk \cup {GoName(version[p])} ELSE sdk
    /\ Goto(p, "use_unlink")
    /\ UNCHANGED <<goOutput, gobin, op, arg, version, local, initial, pre, output, printAll, versions, path, candidate, matched>>

\* use, lines 71-77: `go<version> download`.  It can succeed only if the
\* binary is there; on success the SDK is unpacked and marked, on failure
\* it may be left partly unpacked (partial).
UseDownload(p, ok, partial) ==
    /\ pc[p] = "use_download"
    /\ ok => Exists(gobin, GoName(version[p]))
    /\ log' = [log EXCEPT ![p] = Append(@, Step("download", ok))]
    /\ IF ok THEN /\ sdk' = sdk \cup SdkPaths(version[p])
                  /\ Goto(p, "use_unlink")
       ELSE /\ sdk' = IF partial THEN sdk \cup {GoName(version[p])} ELSE sdk
            /\ Return(p, "download_error")
    /\ UNCHANGED <<goOutput, gobin, op, arg, version, local, initial, pre, output, printAll, versions, path, candidate, matched>>

\* use, lines 80-83: remove the old symlink; only a missing one is tolerated.
UseUnlink(p, fail) ==
    LET r == FsRemove(gobin, GoPrefix)
    IN  /\ pc[p] = "use_unlink"
        /\ log' = [log EXCEPT ![p] = Append(@, Step("unlink", ~fail))]
        /\ IF fail THEN /\ Return(p, "io_error")
                        /\ UNCHANGED gobin
           ELSE /\ Goto(p, "use_symlink")
                /\ gobin' = r.dir
        /\ UNCHANGED <<goOutput, sdk, op, arg, version, local, initial, pre, output, printAll, versions, path, candidate, matched>>

\* use, lines 84-89: create the symlink go -> go<version>.
UseSymlink(p, fail) ==
    LET r == FsSymlink(gobin, GoName(version[p]), GoPrefix)
    IN  /\ pc[p] = "use_symlink"
        /\ log' = [log EXCEPT ![p] = Append(@, Step("symlink", ~fail /\ r.err = "nil"))]
        /\ IF fail \/ r.err # "nil" THEN /\ Return(p, "io_error")
                                         /\ UNCHANGED gobin
           ELSE /\ Return(p, "switched")
                /\ gobin' = r.dir
        /\ UNCHANGED <<goOutput, sdk, op, arg, version, local, initial, pre, output, printAll, versions, path, candidate, matched>>


\* remove, line 154.
RemoveStart(p, a, fail) == Start(p, "remove", a, FALSE, fail)

\* remove, lines 175-180: switch to main first; any error returns.
RemoveUnlink(p, fail) ==
    LET r == FsRemove(gobin, GoPrefix)
    IN  /\ pc[p] = "rm_unlink"
        /\ log' = [log EXCEPT ![p] = Append(@, Step("unlink", ~fail /\ r.err = "nil"))]
        /\ IF fail THEN /\ Return(p, "io_error")
                        /\ UNCHANGED gobin
           ELSE IF r.err # "nil" THEN /\ Return(p, "not_exist_error")
                                      /\ UNCHANGED gobin
           ELSE /\ Goto(p, "rm_bin")
                /\ gobin' = r.dir
        /\ UNCHANGED <<goOutput, sdk, op, arg, version, local, initial, pre, output, printAll, versions, path, candidate, matched>>

\* A slip: the error of deleting the binary is dropped and remove goes on.
RemoveBinaryIgnoresError(p, fail) ==
    LET r == FsRemove(gobin, GoName(version[p]))
    IN  /\ pc[p] = "rm_bin"
        /\ log' = [log EXCEPT ![p] = Append(@, Step("rm_bin", ~fail /\ r.err = "nil"))]
        /\ gobin' = IF fail THEN gobin ELSE r.dir
        /\ Goto(p, "rm_sdk")
        /\ UNCHANGED <<goOutput, sdk, op, arg, version, local, initial, pre, output, printAll, versions, path, candidate, matched>>

\* remove, lines 183-185: delete the binary go<version>.
RemoveBinary(p, fail) ==
    LET r == FsRemove(gobin, GoName(version[p]))
    IN  /\ pc[p] = "rm_bin"
        /\ log' = [log EXCEPT ![p] = Append(@, Step("rm_bin", ~fail /\ r.err = "nil"))]
        /\ IF fail THEN /\ Return(p, "io_error")
                        /\ UNCHANGED gobin
           ELSE IF r.err # "nil" THEN /\ Return(p, "not_exist_error")
                                      /\ UNCHANGED gobin
           ELSE /\ Goto(p, "rm_sdk")
                /\ gobin' = r.dir
        /\ UNCHANGED <<goOutput, sdk, op, arg, version, local, initial, pre, output, printAll, versions, path, candidate, matched>>

\* A slip: only the marker is deleted, not the SDK directory tree.
RemoveSDKMarkerOnly(p, fail, partial) ==
    /\ pc[p] = "rm_sdk"
    /\ log' = [log EXCEPT ![p] = Append(@, Step("rm_sdk", ~fail))]
    /\ IF fail THEN /\ Return(p, "io_error")
                    /\ sdk' = IF partial THEN sdk \ {GoName(version[p]) \o Marker} ELSE sdk
       ELSE /\ Return(p, "removed")
            /\ sdk' = sdk \ {GoName(version[p]) \o Marker}
    /\ UNCHANGED <<goOutput, gobin, op, arg, version, local, initial, pre, output, printAll, versions, path, candidate, matched>>

\* remove, lines 186-191: delete the SDK directory tree.  A failing
\* RemoveAll may have deleted part of the tree (partial: the marker).
RemoveSDK(p, fail, partial) ==
    /\ pc[p] = "rm_sdk"
    /\ log' = [log EXCEPT ![p] = Append(@, Step("rm_sdk", ~fail))]
    /\ IF fail THEN /\ Return(p, "io_error")
                    /\ sdk' = IF partial THEN sdk \ {GoName(version[p]) \o Marker} ELSE sdk
       ELSE /\ Return(p, "removed")
            /\ sdk' = FsRemoveAll(sdk, GoName(version[p]))
    /\ UNCHANGED <<goOutput, gobin, op, arg, version, local, initial, pre, output, printAll, versions, path, candidate, matched>>

(***************************************************************************)
(* list, lines 109-144.  `all` is the -all flag, `only` the -only prefix,  *)
(* `remote` what go.dev answers (remoteVersions) and remoteOK whether the  *)
(* request succeeds.  A printed line is the version, its annotation and    *)
(* whether it is marked current.                                           *)
(***************************************************************************)
RemoteLists == {<<V122rc1, V121, V120>>}

Prefixes == {<<>>, <<"1", ".", "2", "2">>}

\* A slip: the SDK is looked for before the version is compared with main.
AnnotationSDKFirst(l, v, paths) ==
    IF contains(l, v) /\ ~downloaded(v, paths) THEN "missing SDK"
    ELSE IF v = l.main THEN "main"
    ELSE IF ~contains(l, v) THEN "not installed"
    ELSE ""

Annotation(l, v, paths) ==
    IF v = l.main THEN "main"
    ELSE IF ~contains(l, v) THEN "not installed"
    ELSE IF ~downloaded(v, paths) THEN "missing SDK"
    ELSE ""

\* list, lines 95-109: the flags are parsed and localVersions is called.
ListStart(p, all, only, fail) == Start(p, "list", only, all, fail)

\* list, lines 115-119: remoteVersions.
ListRemote(p, remote, remoteOK) ==
    /\ pc[p] = "list_remote"
    /\ IF ~remoteOK THEN /\ Return(p, "remote_error")
                         /\ UNCHANGED versions
       ELSE IF remote = <<>> THEN /\ Return(p, "listed")
                                  /\ UNCHANGED versions
       ELSE /\ Goto(p, "list_print")
            /\ versions' = [versions EXCEPT ![p] = remote]
    /\ UNCHANGED <<goOutput, gobin, sdk, op, arg, version, local, initial, log, pre, output,
                   printAll, path, candidate, matched>>

\* list, lines 121-144: one turn of the loop.  The entry is skipped or
\* printed, with the SDK marker looked for now; after the last entry list
\* returns.
ListPrint(p) ==
    LET v == Head(versions[p])
        line == [version |-> v,
                 extra |-> Annotation(local[p], v, sdk),
                 current |-> (v = local[p].current)]
    IN  /\ pc[p] = "list_print"
        /\ output' = [output EXCEPT ![p] = IF HasPrefix(v, arg[p]) THEN Append(@, line) ELSE @]
        /\ versions' = [versions EXCEPT ![p] = Tail(@)]
        /\ IF Tail(versions[p]) = <<>> THEN Return(p, "listed") ELSE Goto(p, "list_print")
        /\ UNCHANGED <<goOutput, gobin, sdk, op, arg, version, local, initial, log, pre,
                       printAll, path, candidate, matched>>

\* The process of the invocation exits; the next invocation is a new one.
Exit(p) ==
    /\ pc[p] = "done"
    /\ pc' = [pc EXCEPT ![p] = "idle"]
    /\ op' = [op EXCEPT ![p] = "none"]
    /\ arg' = [arg EXCEPT ![p] = <<>>]
    /\ version' = [version EXCEPT ![p] = <<>>]
    /\ local' = [local EXCEPT ![p] = NoLocal]
    /\ initial' = [initial EXCEPT ![p] = FALSE]
    /\ result' = [result EXCEPT ![p] = "none"]
    /\ log' = [log EXCEPT ![p] = <<>>]
    /\ pre' = [pre EXCEPT ![p] = NoPre]
    /\ output' = [output EXCEPT ![p] = <<>>]
    /\ printAll' = [printAll EXCEPT ![p] = FALSE]
    /\ versions' = [versions EXCEPT ![p] = <<>>]
    /\ path' = [path EXCEPT ![p] = pre[p].path]
    /\ UNCHANGED <<goOutput, gobin, sdk, candidate, matched>>

(***************************************************************************)
(* The tool run one invocation at a time: process 1 runs every command to  *)
(* its end before the next one starts.                                     *)
(***************************************************************************)
Next ==
    \/ \E a \in Args, fail \in BOOLEAN : UseStart(1, a, fail)
    \/ \E a \in Args, fail \in BOOLEAN : RemoveStart(1, a, fail)
    \/ \E all \in BOOLEAN, only \in Prefixes, fail \in BOOLEAN : ListStart(1, all, only, fail)
    \/ \E fail \in BOOLEAN : Readlink(1, fail)
    \/ \E fail \in BOOLEAN : ReadDirectory(1, fail)
    \/ \E fail \in BOOLEAN : UseRemoveMain(1, fail)
    \/ \E ok \in BOOLEAN : UseInstall(1, ok)
    \/ UseCheckSDK(1)
    \/ \E ok \in BOOLEAN, partial \in BOOLEAN : UseDownload(1, ok, partial)
    \/ \E fail \in BOOLEAN : UseUnlink(1, fail)
    \/ \E fail \in BOOLEAN : UseSymlink(1, fail)
    \/ \E fail \in BOOLEAN : RemoveUnlink(1, fail)
    \/ \E fail \in BOOLEAN : RemoveBinary(1, fail)
    \/ \E fail \in BOOLEAN, partial \in BOOLEAN : RemoveSDK(1, fail, partial)
    \/ \E remote \in RemoteLists, remoteOK \in BOOLEAN : ListRemote(1, remote, remoteOK)
    \/ ListPrint(1)
    \/ Exit(1)

Spec == Init /\ [][Next]_vars

(***************************************************************************)
(* versionRE alone: a string is typed token by token, then versionRE.      *)
(* MatchString is applied to it, as lines 41, 164 and 262 apply it.        *)
(***************************************************************************)
MaxCandidateLen == 6

Tokens == {<<"0">>, <<"1">>, <<"2">>, <<".">>, <<"r", "c">>, <<"b", "e", "t", "a">>}

InitGrammar ==
    /\ goOutput = GoVersionLine(V121)
    /\ gobin = OtherEntries
    /\ sdk = {}
    /\ path = [p \in Procs |-> GobinDir \o <<":">> \o SysDir]
    /\ pc = [p \in Procs |-> "idle"]
    /\ op = [p \in Procs |-> "none"]
    /\ arg = [p \in Procs |-> <<>>]
    /\ version = [p \in Procs |-> <<>>]
    /\ local = [p \in Procs |-> NoLocal]
    /\ initial = [p \in Procs |-> FALSE]
    /\ result = [p \in Procs |-> "none"]
    /\ log = [p \in Procs |-> <<>>]
    /\ pre = [p \in Procs |-> NoPre]
    /\ output = [p \in Procs |-> <<>>]
    /\ printAll = [p \in Procs |-> FALSE]
    /\ versions = [p \in Procs |-> <<>>]
    /\ candidate = <<>>
    /\ matched = "unchecked"

Type(token) ==
    /\ matched = "unchecked"
    /\ Len(candidate) + Len(token) <= MaxCandidateLen
    /\ candidate' = candidate \o token
    /\ UNCHANGED <<goOutput, gobin, sdk, path, pc, op, arg, version, local, initial, result,
                   log, pre, output, printAll, versions, matched>>

MatchString ==
    /\ matched = "unchecked"
    /\ matched' = IF versionRE(candidate) THEN "accepted" ELSE "rejected"
    /\ UNCHANGED <<goOutput, gobin, sdk, path, pc, op, arg, version, local, initial, result,
                   log, pre, output, printAll, versions, candidate>>

NextGrammar ==
    \/ \E token \in Tokens : Type(token)
    \/ MatchString

SpecGrammar == InitGrammar /\ [][NextGrammar]_vars

(***************************************************************************)
(* Two invocations at once: two processes, each running one command, their *)
(* snapshot reads and filesystem steps interleaved.  Nothing in the code   *)
(* locks the directories.  They start in a state earlier invocations can   *)
(* have left: the go symlink absent, or targeting an installed release     *)
(* whose SDK is unpacked.                                                  *)
(***************************************************************************)
RaceArgs == {MainAlias, V120}

InitRace ==
    /\ goOutput = GoVersionLine(V121)
    /\ \E installed \in SUBSET Releases :
         \E linked \in {v \in installed : TRUE} \cup {<<>>} :
            /\ gobin = OtherEntries \cup {FileEntry(GoName(v)) : v \in installed}
                          \cup (IF linked = <<>> THEN {}
                                ELSE {LinkEntry(GoPrefix, GoName(linked))})
            /\ \E unpacked \in SUBSET Releases :
                  /\ linked # <<>> => linked \in unpacked
                  /\ sdk = UNION {SdkPaths(v) : v \in unpacked}
    /\ path = [p \in Procs |-> GobinDir \o <<":">> \o SysDir]
    /\ pc = [p \in Procs |-> "idle"]
    /\ op = [p \in Procs |-> "none"]
    /\ arg = [p \in Procs |-> <<>>]
    /\ version = [p \in Procs |-> <<>>]
    /\ local = [p \in Procs |-> NoLocal]
    /\ initial = [p \in Procs |-> FALSE]
    /\ result = [p \in Procs |-> "none"]
    /\ log = [p \in Procs |-> <<>>]
    /\ pre = [p \in Procs |-> NoPre]
    /\ output = [p \in Procs |-> <<>>]
    /\ printAll = [p \in Procs |-> FALSE]
    /\ versions = [p \in Procs |-> <<>>]
    /\ candidate = <<>>
    /\ matched = "unchecked"

NextRace ==
    \E p \in Procs :
        \/ \E a \in RaceArgs : UseStart(p, a, FALSE)
        \/ \E a \in RaceArgs : RemoveStart(p, a, FALSE)
        \/ ListStart(p, FALSE, <<>>, FALSE)
        \/ Readlink(p, FALSE)
        \/ ReadDirectory(p, FALSE)
        \/ \E fail \in BOOLEAN : UseRemoveMain(p, fail)
        \/ \E ok \in BOOLEAN : UseInstall(p, ok)
        \/ UseCheckSDK(p)
        \/ \E ok \in BOOLEAN, partial \in BOOLEAN : UseDownload(p, ok, partial)
        \/ \E fail \in BOOLEAN : UseUnlink(p, fail)
        \/ \E fail \in BOOLEAN : UseSymlink(p, fail)
        \/ \E fail \in BOOLEAN : RemoveUnlink(p, fail)
        \/ \E fail \in BOOLEAN : RemoveBinary(p, fail)
        \/ \E fail \in BOOLEAN, partial \in BOOLEAN : RemoveSDK(p, fail, partial)
        \/ ListPrint(p)

SpecRace == InitRace /\ [][NextRace]_vars

\* What ResolveLocal reports in the present state.
Resolved == localVersions(path[1], goOutput, gobin, "none")


(***************************************************************************)
(* Vocabulary of the properties.                                           *)
(***************************************************************************)
Done(p, command) == pc[p] = "done" /\ op[p] = command

\* The invocation is inside localVersions.
Resolving(p) == pc[p] \in {"readlink", "readdir"}

\* The invocation got its snapshot (localVersions returned no error).
Snapshot(p) == pc[p] # "idle" /\ ~Resolving(p) /\ result[p] # "resolve_error"

Unchanged(p) == gobin = pre[p].gobin /\ sdk = pre[p].sdk

LinkTarget(dir) == FsReadlink(dir, GoPrefix)

Ran(p, name) == {i \in 1..Len(log[p]) : log[p][i].step = name}

AllOK(p) == \A i \in 1..Len(log[p]) : log[p][i].ok

NoDuplicates(list) == \A i, j \in 1..Len(list) : list[i] = list[j] => i = j

\* C1: when use returns success for a version whose binary was installed
\* and whose SDK marker was present, ResolveLocal reports it as current.
C1_UseRoundTrip ==
    \A p \in Procs :
        (/\ Done(p, "use")
         /\ result[p] \in {"already", "switched_main", "switched"}
         /\ Exists(pre[p].gobin, GoName(version[p]))
         /\ downloaded(version[p], pre[p].sdk))
        => /\ Resolved.err = "nil"
           /\ Resolved.local.current = version[p]

C1_Witness ==
    \E p \in Procs :
        /\ Done(p, "use")
        /\ result[p] = "switched"
        /\ Exists(pre[p].gobin, GoName(version[p]))
        /\ downloaded(version[p], pre[p].sdk)
        /\ Resolved.local.current = version[p]

\* C2: after use main (no I/O or process failure aside), ResolveLocal
\* reports current = main and the bin directory has no entry named go,
\* whatever version the main toolchain reports.
C2_UseMainSwitches ==
    \A p \in Procs :
        (/\ Done(p, "use")
         /\ arg[p] = MainAlias
         /\ result[p] \notin {"resolve_error", "io_error"})
        => /\ Resolved.local.current = Resolved.local.main
           /\ ~Exists(gobin, GoPrefix)

\* C3: remove of the main version, given literally or as "main", fails with
\* the state-conflict error and changes nothing, whatever main is.
C3_RemoveMainConflict ==
    \A p \in Procs :
        (/\ Done(p, "remove")
         /\ Snapshot(p)
         /\ version[p] = local[p].main)
        => /\ result[p] = "is_main"
           /\ Unchanged(p)

\* C4: when remove of the current version (which is not main) returns
\* success, ResolveLocal reports current = main, and the binary and the SDK
\* directory of the version are gone.
C4_RemoveCurrent ==
    \A p \in Procs :
        (/\ Done(p, "remove")
         /\ result[p] = "removed"
         /\ version[p] = local[p].current)
        => /\ Resolved.local.current = Resolved.local.main
           /\ ~Exists(gobin, GoName(version[p]))
           /\ \A q \in sdk : q # GoName(version[p])
                              /\ ~HasPrefix(q, GoName(version[p]) \o <<"/">>)

C4_Witness ==
    \E p \in Procs :
        /\ Done(p, "remove")
        /\ result[p] = "removed"
        /\ version[p] = local[p].current
        /\ Exists(pre[p].gobin, GoPrefix)
        /\ GoName(version[p]) \in pre[p].sdk

\* C5: run one invocation at a time from a bin directory without a go
\* symlink, in every state a step can leave: the go symlink, when present,
\* targets a binary that exists, and when ResolveLocal yields a snapshot,
\* main is in its list and current is main or in the list with its binary.
C5_SnapshotInvariant ==
    /\ LinkTarget(gobin).err \in {"nil", "not_exist"}
    /\ LinkTarget(gobin).err = "nil" =>
          \E e \in Named(gobin, LinkTarget(gobin).target) : e.kind = "file"
    /\ Resolved.err = "nil" =>
          LET l == Resolved.local
          IN  /\ contains(l, l.main)
              /\ \/ l.current = l.main
                 \/ /\ contains(l, l.current)
                    /\ \E e \in Named(gobin, GoName(l.current)) : e.kind = "file"

C5_Witness ==
    \E p \in Procs :
        /\ Done(p, "remove")
        /\ result[p] = "removed"
        /\ LinkTarget(gobin).err = "nil"
        /\ Resolved.local.current # Resolved.local.main

\* C6: the list of every snapshot contains main and no version twice.
C6_ListNoDuplicates ==
    \A p \in Procs :
        Snapshot(p) => /\ contains(local[p], local[p].main)
                       /\ NoDuplicates(local[p].list)

\* C7: use or remove of a version that fails the grammar (the alias
\* resolved) returns the malformed-version error, runs no step at all
\* (neither install nor download) and leaves both directories as they were.
C7_ValidationNoMutation ==
    \A p \in Procs :
        (/\ Done(p, "use") \/ Done(p, "remove")
         /\ Snapshot(p)
         /\ ~versionRE(version[p]))
        => /\ result[p] = "malformed"
           /\ log[p] = <<>>
           /\ Unchanged(p)

C7_Witness ==
    \E p \in Procs :
        /\ Done(p, "use")
        /\ arg[p] = MainAlias
        /\ result[p] = "malformed"
        /\ Exists(gobin, GoPrefix)

\* C8: use of the (valid) version that is current returns success as
\* already in use, runs neither install nor download nor any other step,
\* and leaves the symlink and both directories as they were.
C8_UseCurrentNoOp ==
    \A p \in Procs :
        (/\ Done(p, "use")
         /\ Snapshot(p)
         /\ versionRE(version[p])
         /\ version[p] = local[p].current)
        => /\ result[p] = "already"
           /\ log[p] = <<>>
           /\ Unchanged(p)

C8_Witness ==
    \E p \in Procs :
        /\ Done(p, "use")
        /\ result[p] = "already"
        /\ LinkTarget(gobin).err = "nil"
        /\ LinkTarget(gobin).target = GoName(version[p])

\* C9: use of a version that is neither current nor main, every step of
\* which succeeds, runs install exactly when the version was not in the
\* local list, download exactly when the SDK marker was absent, then
\* replaces the symlink, and ends with go pointing at go<version>.
ExpectedSteps(p) ==
    (IF contains(local[p], version[p]) THEN <<>> ELSE <<Step("install", TRUE)>>)
    \o (IF downloaded(version[p], pre[p].sdk) THEN <<>> ELSE <<Step("download", TRUE)>>)
    \o <<Step("unlink", TRUE), Step("symlink", TRUE)>>

C9_UseResumable ==
    \A p \in Procs :
        (/\ Done(p, "use")
         /\ Snapshot(p)
         /\ versionRE(version[p])
         /\ version[p] # local[p].current
         /\ version[p] # local[p].main
         /\ AllOK(p))
        => /\ result[p] = "switched"
           /\ log[p] = ExpectedSteps(p)
           /\ LinkTarget(gobin) = [err |-> "nil", target |-> GoName(version[p])]

\* The binary was there and the marker was not: only the download ran.
C9_Witness ==
    \E p \in Procs :
        /\ Done(p, "use")
        /\ result[p] = "switched"
        /\ Exists(pre[p].gobin, GoName(version[p]))
        /\ GoName(version[p]) \in pre[p].sdk
        /\ ~downloaded(version[p], pre[p].sdk)
        /\ log[p] = <<Step("download", TRUE), Step("unlink", TRUE), Step("symlink", TRUE)>>

\* C10: a step of use that failed is the last step use ran, and use has
\* returned; install and download run at most once each; and when install
\* or download failed, no symlink step ran and the go symlink is as it was.
C10_NoRetry ==
    \A p \in Procs :
        op[p] = "use" =>
            /\ \A i \in 1..Len(log[p]) :
                  ~log[p][i].ok => i = Len(log[p]) /\ pc[p] = "done"
            /\ Cardinality(Ran(p, "install")) <= 1
            /\ Cardinality(Ran(p, "download")) <= 1
            /\ (pc[p] = "done" /\ result[p] \in {"install_error", "download_error"}) =>
                  /\ ~log[p][Len(log[p])].ok
                  /\ log[p][Len(log[p])].step =
                        (IF result[p] = "install_error" THEN "install" ELSE "download")
                  /\ Ran(p, "unlink") = {} /\ Ran(p, "symlink") = {}
                  /\ LinkTarget(gobin) = LinkTarget(pre[p].gobin)
            /\ (\E i \in Ran(p, "install") : ~log[p][i].ok) =>
                  pc[p] = "done" /\ result[p] = "install_error"
            /\ (\E i \in Ran(p, "download") : ~log[p][i].ok) =>
                  pc[p] = "done" /\ result[p] = "download_error"

C10_Witness ==
    \E p \in Procs :
        /\ Done(p, "use")
        /\ result[p] = "download_error"
        /\ log[p] = <<Step("install", TRUE), Step("download", FALSE)>>
        /\ LinkTarget(gobin).err = "nil"


\* C11: a removal of the go symlink that finds no such entry is no error:
\* the command that ran it does not return the not-found error.
LastStep(p) == log[p][Len(log[p])]

C11_UnlinkToleratesNotFound ==
    \A p \in Procs :
        (/\ pc[p] = "done"
         /\ log[p] # <<>>
         /\ LastStep(p).step = "unlink")
        => result[p] # "not_exist_error"

\* C12: a step deletes a binary go<v> or a path of the sdk directory only
\* if it is a step of remove, what it deletes belongs to the version given
\* to remove, and that version is not main.  (use and list delete nothing
\* but the go symlink.)
DeletedBinaries == {e \in gobin : e.kind # "symlink" /\ e \notin gobin'}
DeletedSDKPaths == sdk \ sdk'

C12_Step ==
    /\ \A e \in DeletedBinaries :
          \E p \in Procs : /\ op[p] = "remove"
                           /\ pc[p] = "rm_bin"
                           /\ e.name = GoName(version[p])
                           /\ version[p] # local[p].main
    /\ \A q \in DeletedSDKPaths :
          \E p \in Procs : /\ op[p] = "remove"
                           /\ pc[p] = "rm_sdk"
                           /\ \/ q = GoName(version[p])
                              \/ HasPrefix(q, GoName(version[p]) \o <<"/">>)
                           /\ version[p] # local[p].main

C12_OnlyRemoveDestroys == [][C12_Step]_vars

\* remove has deleted the binary and the SDK of a version that was not current.
C12_Witness ==
    \E p \in Procs :
        /\ Done(p, "remove")
        /\ result[p] = "removed"
        /\ version[p] # local[p].current
        /\ Exists(pre[p].gobin, GoName(version[p]))
        /\ downloaded(version[p], pre[p].sdk)
        /\ ~Exists(gobin, GoName(version[p]))
        /\ GoName(version[p]) \notin sdk

\* C13: every line list prints carries the annotation "main" exactly when
\* the entry is main; otherwise "not installed" exactly when it is not in
\* the local list; otherwise "missing SDK" exactly when its marker is
\* absent; otherwise none.  The entry is marked current exactly when it is
\* current, and list changes neither directory.
InstalledLocally(v) == v = Resolved.local.main \/ Exists(gobin, GoName(v))

C13_ListAnnotation ==
    \A p \in Procs :
        Done(p, "list") =>
            /\ Unchanged(p)
            /\ log[p] = <<>>
            /\ \A i \in 1..Len(output[p]) :
                  LET line == output[p][i]
                      v == line.version
                  IN  /\ line.extra = "main" <=> v = Resolved.local.main
                      /\ line.extra = "not installed" <=>
                            (v # Resolved.local.main /\ ~InstalledLocally(v))
                      /\ line.extra = "missing SDK" <=>
                            (/\ v # Resolved.local.main
                             /\ InstalledLocally(v)
                             /\ (GoName(v) \o Marker) \notin sdk)
                      /\ line.extra = "" <=>
                            (/\ v # Resolved.local.main
                             /\ InstalledLocally(v)
                             /\ (GoName(v) \o Marker) \in sdk)
                      /\ line.current <=> v = Resolved.local.current

\* list -all printed a main entry without SDK marker, an entry that is not
\* installed and an installed entry whose SDK is missing.
C13_Witness ==
    \E p \in Procs :
        /\ Done(p, "list")
        /\ \E i, j, k \in 1..Len(output[p]) :
              /\ output[p][i].extra = "main"
              /\ (GoName(output[p][i].version) \o Marker) \notin sdk
              /\ output[p][j].extra = "not installed"
              /\ output[p][k].extra = "missing SDK"
              /\ output[p][i].current

\* C16: during and after use of a version that is not main, ResolveLocal
\* reports as current the version that was current before the call or the
\* version given to use.
C16_AtomicSwitch ==
    \A p \in Procs :
        (/\ op[p] = "use"
         /\ Snapshot(p)
         /\ versionRE(version[p])
         /\ version[p] # local[p].main)
        => Resolved.local.current \in {local[p].current, version[p]}

\* C17: remove of the current version runs "remove the go symlink", "delete
\* the binary", "delete the SDK tree" in this order; a step that fails is
\* the last one and remove returns its error; what earlier steps removed
\* stays removed; and the go symlink never targets a missing binary.
RemoveOrder == <<"unlink", "rm_bin", "rm_sdk">>

C17_RemoveOrdering ==
    \A p \in Procs :
        (op[p] = "remove" /\ Snapshot(p) /\ version[p] = local[p].current
           /\ version[p] # local[p].main /\ versionRE(version[p]))
        => /\ Len(log[p]) <= 3
           /\ \A i \in 1..Len(log[p]) :
                 /\ log[p][i].step = RemoveOrder[i]
                 /\ ~log[p][i].ok =>
                       /\ i = Len(log[p])
                       /\ pc[p] = "done"
                       /\ result[p] \in {"io_error", "not_exist_error"}
           /\ (Len(log[p]) >= 1 /\ log[p][1].ok) => ~Exists(gobin, GoPrefix)
           /\ (Len(log[p]) >= 2 /\ log[p][2].ok) => ~Exists(gobin, GoName(version[p]))
           /\ (Len(log[p]) = 3 /\ ~log[p][3].ok) => GoName(version[p]) \in sdk
           /\ (pc[p] = "done" /\ AllOK(p)) => /\ Len(log[p]) = 3
                                              /\ result[p] = "removed"
           /\ LinkTarget(gobin).err = "nil" => Exists(gobin, LinkTarget(gobin).target)

\* The SDK tree could not be deleted: the symlink and the binary stay removed.
C17_Witness ==
    \E p \in Procs :
        /\ Done(p, "remove")
        /\ version[p] = local[p].current
        /\ result[p] = "io_error"
        /\ log[p] = <<Step("unlink", TRUE), Step("rm_bin", TRUE), Step("rm_sdk", FALSE)>>
        /\ Exists(pre[p].gobin, GoPrefix)
        /\ ~Exists(gobin, GoPrefix)
        /\ ~Exists(gobin, GoName(version[p]))

\* C18: with two invocations interleaved the go symlink can end up
\* targeting a binary that is gone, and it does so only by this race: a use
\* of the version created the symlink and a remove of the same version,
\* run by the other invocation, deleted the binary.
Ok(p, name) == \E i \in 1..Len(log[p]) : log[p][i] = Step(name, TRUE)

Dangling ==
    /\ LinkTarget(gobin).err = "nil"
    /\ ~Exists(gobin, LinkTarget(gobin).target)

C18_RaceBreaksInvariant ==
    Dangling =>
        \E p, q \in Procs :
            /\ p # q
            /\ op[p] = "use"
            /\ LinkTarget(gobin).target = GoName(version[p])
            /\ Ok(p, "symlink")
            /\ op[q] = "remove"
            /\ version[q] = version[p]
            /\ Ok(q, "rm_bin")

\* remove(v) and use(v), v installed and not current in both snapshots, have
\* both returned success: go targets go<v>, the binary and the SDK are gone.
C18_Witness ==
    \E p, q \in Procs :
        /\ Done(p, "use") /\ result[p] = "switched"
        /\ Done(q, "remove") /\ result[q] = "removed"
        /\ version[q] = version[p]
        /\ contains(local[p], version[p])
        /\ version[q] # local[q].current
        /\ LinkTarget(gobin).target = GoName(version[p])
        /\ ~Exists(gobin, GoName(version[p]))
        /\ \A x \in sdk : ~HasPrefix(x, GoName(version[p]))

\* C19: run one invocation at a time, whenever the go symlink exists and
\* targets go<v>, the SDK marker of v is present.
C19_ActiveHasSDK ==
    LinkTarget(gobin).err = "nil" => (LinkTarget(gobin).target \o Marker) \in sdk

\* use downloaded the missing SDK of an installed version and switched to it.
C19_Witness ==
    \E p \in Procs :
        /\ Done(p, "use")
        /\ result[p] = "switched"
        /\ ~downloaded(version[p], pre[p].sdk)
        /\ Step("download", TRUE) \in {log[p][i] : i \in 1..Len(log[p])}
        /\ LinkTarget(gobin).target = GoName(version[p])
        /\ downloaded(version[p], sdk)


\* C14: on every return of localVersions, also on its error returns, $PATH
\* of the process has the value it had before the call.
C14_PathRestored ==
    \A p \in Procs : (pc[p] # "idle" /\ ~Resolving(p)) => path[p] = pre[p].path

\* localVersions returned the unexpected-format error; the path it ran
\* `go version` under was a different one.
C14_Witness ==
    \E p \in Procs :
        /\ pc[p] = "done"
        /\ result[p] = "resolve_error"
        /\ goOutput = DevelLine
        /\ cutFromPath(pre[p].path, GobinDir) # pre[p].path
        /\ path[p] = pre[p].path

\* C15: versionRE accepts exactly the strings 1[.MINOR][.PATCH][(rc|beta)N]
\* with MINOR, PATCH and N positive integers without a leading zero.
IsPositiveNumber(s) ==
    /\ Len(s) >= 1
    /\ s[1] \in NonZeroDigits
    /\ \A i \in 1..Len(s) : s[i] \in Digits

IsDotNumber(s) == Len(s) >= 2 /\ s[1] = "." /\ IsPositiveNumber(Tail(s))

IsPreRelease(s) ==
    \/ HasPrefix(s, <<"r", "c">>) /\ IsPositiveNumber(SubSeq(s, 3, Len(s)))
    \/ HasPrefix(s, <<"b", "e", "t", "a">>) /\ IsPositiveNumber(SubSeq(s, 5, Len(s)))

InGrammar(s) ==
    /\ Len(s) >= 1
    /\ s[1] = "1"
    /\ \E a, b \in 2..(Len(s) + 1) :
          /\ a <= b
          /\ a = 2 \/ IsDotNumber(SubSeq(s, 2, a - 1))
          /\ b = a \/ IsDotNumber(SubSeq(s, a, b - 1))
          /\ b = Len(s) + 1 \/ IsPreRelease(SubSeq(s, b, Len(s)))

C15_ExactGrammar ==
    matched # "unchecked" => (matched = "accepted" <=> InGrammar(candidate))

=============================================================================
